---- MODULE Spec2Model ----
(***************************************************************************)
(* Model of src/battery.rs: a reader of Linux power-supply attribute       *)
(* files.  Text is a sequence of one-character strings, a device directory *)
(* is a function from file names to file states, and the Battery snapshot  *)
(* is a record.  u32/u8 parsing and the f32 arithmetic of the health       *)
(* computation are modelled digit by digit and bit by bit.                 *)
(***************************************************************************)
EXTENDS Integers, Sequences, FiniteSets, TLC

\* ------------------------------------------------------------------------
\* Bounds of the model (not program constants)
\* ------------------------------------------------------------------------
\* external changes to the device files in one behaviour of Spec
MaxWrites == 2
\* external changes to the device files in one behaviour of SpecRace
MaxRaceWrites == 1
\* most entries a listing of the power-supply root has
MaxEntries == 3

None == [none |-> TRUE]
Some(v) == [some |-> v]
IsSome(o) == o # None

\* ------------------------------------------------------------------------
\* Text
\* ------------------------------------------------------------------------
WhiteSpace == {" ", "\n", "\t"}
Digits == <<"0", "1", "2", "3", "4", "5", "6", "7", "8", "9">>
UpperCase == <<"A","B","C","D","E","F","G","H","I","J","K","L","M",
               "N","O","P","Q","R","S","T","U","V","W","X","Y","Z">>
LowerCase == <<"a","b","c","d","e","f","g","h","i","j","k","l","m",
               "n","o","p","q","r","s","t","u","v","w","x","y","z">>

RECURSIVE TrimStart(_)
TrimStart(s) ==
    IF s # <<>> /\ Head(s) \in WhiteSpace THEN TrimStart(Tail(s)) ELSE s

RECURSIVE TrimEnd(_)
TrimEnd(s) ==
    IF s # <<>> /\ s[Len(s)] \in WhiteSpace
    THEN TrimEnd(SubSeq(s, 1, Len(s) - 1)) ELSE s

\* str::trim
Trim(s) == TrimEnd(TrimStart(s))

LowerChar(c) ==
    IF \E i \in 1..26 : UpperCase[i] = c
    THEN LowerCase[CHOOSE i \in 1..26 : UpperCase[i] = c]
    ELSE c

\* str::to_lowercase
to_lowercase(s) == [i \in 1..Len(s) |-> LowerChar(s[i])]

IsDigit(c) == \E i \in 1..10 : Digits[i] = c
DigitVal(c) == (CHOOSE i \in 1..10 : Digits[i] = c) - 1

\* ------------------------------------------------------------------------
\* Unsigned integer parsing (str::parse::<u32>, str::parse::<u8>)
\* ------------------------------------------------------------------------
\* decimal numerals of u32::MAX and u8::MAX
U32MaxText == <<"4","2","9","4","9","6","7","2","9","5">>
U8MaxText == <<"2","5","5">>

RECURSIVE StripZeros(_)
StripZeros(d) ==
    IF Len(d) > 1 /\ Head(d) = "0" THEN StripZeros(Tail(d)) ELSE d

RECURSIVE NumeralLess(_, _)
\* a < b for two digit sequences of the same length
NumeralLess(a, b) ==
    IF a = <<>> THEN FALSE
    ELSE IF DigitVal(Head(a)) # DigitVal(Head(b))
         THEN DigitVal(Head(a)) < DigitVal(Head(b))
         ELSE NumeralLess(Tail(a), Tail(b))

\* the digit sequence d denotes a number above the type's maximum
Overflows(d, maxText) ==
    LET z == StripZeros(d) IN
    \/ Len(z) > Len(maxText)
    \/ Len(z) = Len(maxText) /\ NumeralLess(maxText, z)

RECURSIVE NumeralValue(_, _)
NumeralValue(d, acc) ==
    IF d = <<>> THEN acc
    ELSE NumeralValue(Tail(d), acc * 10 + DigitVal(Head(d)))

\* First position of a digit sequence at which the left-to-right
\* accumulation stops: a non-digit, or a prefix above the maximum.
\* 0 when the whole text is accepted.
FirstBad(d, maxText) ==
    LET bad == {i \in 1..Len(d) :
                   \/ ~IsDigit(d[i])
                   \/ Overflows(SubSeq(d, 1, i), maxText)}
    IN IF bad = {} THEN 0
       ELSE CHOOSE i \in bad : \A j \in bad : i <= j

\* <uN as FromStr>::from_str: an optional leading '+', then one or more
\* decimal digits, accumulated with overflow checks.  A '-' is not accepted
\* by the unsigned types.
ParseUnsigned(s, maxText) ==
    IF s = <<>> THEN [ok |-> FALSE, err |-> "Empty"]
    ELSE IF Len(s) = 1 /\ Head(s) \in {"+", "-"}
    THEN [ok |-> FALSE, err |-> "InvalidDigit"]
    ELSE LET d == IF Head(s) = "+" THEN Tail(s) ELSE s
             b == FirstBad(d, maxText)
         IN IF b = 0 THEN [ok |-> TRUE, val |-> NumeralValue(d, 0)]
            ELSE IF ~IsDigit(d[b])
                 THEN [ok |-> FALSE, err |-> "InvalidDigit"]
                 ELSE [ok |-> FALSE, err |-> "PosOverflow"]

\* ------------------------------------------------------------------------
\* f32 arithmetic on non-negative finite values: m * 2^e with m = 0 or
\* 2^23 <= m < 2^24 (24-bit significand, round to nearest, ties to even)
\* ------------------------------------------------------------------------
MantBits == 24
RECURSIVE Pow2(_)
Pow2(k) == IF k = 0 THEN 1 ELSE 2 * Pow2(k - 1)
MantLo == Pow2(MantBits - 1)
MantHi == Pow2(MantBits)

F32Zero == [m |-> 0, e |-> 0]

RECURSIVE ShiftUp(_, _)
ShiftUp(n, e) == IF n >= MantLo THEN [m |-> n, e |-> e] ELSE ShiftUp(2 * n, e - 1)

RECURSIVE ExcessBits(_)
ExcessBits(n) == IF n < MantHi THEN 0 ELSE 1 + ExcessBits(n \div 2)

\* round the exact value (n + sticky fraction) * 2^e to an f32
F32Round(n, e, sticky) ==
    IF n = 0 THEN F32Zero
    ELSE IF n < MantHi THEN ShiftUp(n, e)
    ELSE LET k == ExcessBits(n)
             q == n \div Pow2(k)
             r == n % Pow2(k)
             half == Pow2(k - 1)
             up == \/ r > half
                   \/ r = half /\ sticky
                   \/ r = half /\ ~sticky /\ q % 2 = 1
             q2 == IF up THEN q + 1 ELSE q
         IN IF q2 = MantHi THEN [m |-> MantLo, e |-> e + k + 1]
            ELSE [m |-> q2, e |-> e + k]

\* `n as f32`
F32FromInt(n) == F32Round(n, 0, FALSE)

RECURSIVE DivBits(_, _, _, _)
\* k further quotient bits of rem / d by long division
DivBits(rem, d, k, q) ==
    IF k = 0 THEN [q |-> q, rem |-> rem]
    ELSE IF rem >= d THEN DivBits(2 * (rem - d), d, k - 1, 2 * q + 1)
         ELSE DivBits(2 * rem, d, k - 1, 2 * q)

\* a / b in f32, b non-zero
F32Div(a, b) ==
    IF a.m = 0 THEN F32Zero
    ELSE LET r == DivBits(a.m, b.m, MantBits + 2, 0)
         IN F32Round(r.q, a.e - b.e - (MantBits + 1), r.rem # 0)

RECURSIVE OddPart(_)
OddPart(x) == IF x.m % 2 = 0 /\ x.m # 0 THEN OddPart([m |-> x.m \div 2, e |-> x.e + 1]) ELSE x

\* a * b in f32
F32Mul(a, b) ==
    IF a.m = 0 \/ b.m = 0 THEN F32Zero
    ELSE LET x == OddPart(a)
             y == OddPart(b)
         IN F32Round(x.m * y.m, x.e + y.e, FALSE)

\* ------------------------------------------------------------------------
\* The device directory
\* ------------------------------------------------------------------------
\* the directory the Battery is constructed for
DevPath == <<"sys", "class", "power_supply", "BAT0">>

FileNames == {"energy_now", "charge_now", "energy_full", "charge_full",
              "energy_full_design", "charge_full_design", "status",
              "cycle_count"}

Txt(s) == [ok |-> TRUE, content |-> s]
Unreadable(k) == [ok |-> FALSE, kind |-> k]
Missing == Unreadable("NotFound")

\* fs::read_to_string(path) against the device files fs
read_to_string(fs, p) ==
    IF Len(p) = Len(DevPath) + 1
       /\ SubSeq(p, 1, Len(DevPath)) = DevPath
       /\ p[Len(p)] \in FileNames
    THEN fs[p[Len(p)]]
    ELSE Missing

\* Path::file_name(..).and_then(to_str).unwrap_or("unknown")
battery_name(p) ==
    IF p = <<>> \/ p[Len(p)] = ".." THEN "unknown" ELSE p[Len(p)]

\* ------------------------------------------------------------------------
\* BatteryAttribute
\* ------------------------------------------------------------------------
file_names(attr) ==
    CASE attr = "CurrPower" -> <<"energy_now", "charge_now">>
      [] attr = "TotalPower" -> <<"energy_full", "charge_full">>
      [] attr = "DesignPower" -> <<"energy_full_design", "charge_full_design">>
      [] attr = "Status" -> <<"status">>
      [] attr = "Cycles" -> <<"cycle_count">>

Display(attr) ==
    CASE attr = "CurrPower" -> "current power"
      [] attr = "TotalPower" -> "total power"
      [] attr = "Status" -> "status"
      [] attr = "Cycles" -> "cycle count"
      [] attr = "DesignPower" -> "design power"

\* ------------------------------------------------------------------------
\* Attribute resolution
\* ------------------------------------------------------------------------
Ok(v) == [ok |-> TRUE, val |-> v]
Err(k, m) == [ok |-> FALSE, kind |-> k, msg |-> m]

\* FirstReadable with the loop keeping the last readable candidate
FirstReadable_last(bat_path, names, fs) ==
    LET r == {i \in 1..Len(names) : read_to_string(fs, Append(bat_path, names[i])).ok}
    IN IF r = {} THEN 0 ELSE CHOOSE i \in r : \A j \in r : i >= j

\* index of the candidate the loop returns from; 0 when it runs to the end
FirstReadable(bat_path, names, fs) ==
    LET r == {i \in 1..Len(names) : read_to_string(fs, Append(bat_path, names[i])).ok}
    IN IF r = {} THEN 0 ELSE CHOOSE i \in r : \A j \in r : i <= j

\* read_str_battery_attribute with every failure classified NotFound
read_str_battery_attribute_notfound(bat_path, attr, fs) ==
    LET names == file_names(attr)
        hit == FirstReadable(bat_path, names, fs)
    IN IF hit # 0
       THEN [ok |-> TRUE,
             val |-> read_to_string(fs, Append(bat_path, names[hit])).content,
             path |-> Append(bat_path, names[hit])]
       ELSE IF Len(names) > 1
       THEN Err("NotFound", [text |-> "Failed to read (tried)",
                             attr |-> Display(attr), tried |-> names])
       ELSE LET path == Append(bat_path, names[Len(names)])
                e == read_to_string(fs, path)
            IN Err("NotFound", [text |-> "Failed to read", path |-> path,
                                cause |-> e.kind])

read_str_battery_attribute(bat_path, attr, fs) ==
    LET names == file_names(attr)
        hit == FirstReadable(bat_path, names, fs)
    IN IF hit # 0
       THEN [ok |-> TRUE,
             val |-> read_to_string(fs, Append(bat_path, names[hit])).content,
             path |-> Append(bat_path, names[hit])]
       ELSE IF Len(names) > 1
       THEN Err("NotFound", [text |-> "Failed to read (tried)",
                             attr |-> Display(attr), tried |-> names])
       ELSE IF Len(names) = 1
       THEN LET path == Append(bat_path, names[Len(names)])
                e == read_to_string(fs, path)
            IN Err(e.kind, [text |-> "Failed to read", path |-> path,
                            cause |-> e.kind])
       ELSE Err("NotFound", [text |-> "No file names configured",
                             attr |-> Display(attr)])

read_num_battery_attribute(bat_path, attr, fs, maxText) ==
    LET val == read_str_battery_attribute(bat_path, attr, fs) IN
    IF ~val.ok THEN val
    ELSE LET trimmed == Trim(val.val)
             p == ParseUnsigned(trimmed, maxText)
         IN IF p.ok THEN [ok |-> TRUE, val |-> p.val, path |-> val.path]
            ELSE Err("InvalidData",
                     [text |-> "invalid battery attribute value",
                      value |-> trimmed, cause |-> p.err])

\* ------------------------------------------------------------------------
\* Battery::new, one definition per statement
\* ------------------------------------------------------------------------
\* Wrap building the new error with a fixed kind instead of e.kind()
Wrap_other(r, attr, bat_path) ==
    IF r.ok THEN r
    ELSE Err("Other", [text |-> "Failed to read for", attr |-> Display(attr),
                       name |-> battery_name(bat_path), cause |-> r.msg])

\* the map_err wrapper of the two mandatory reads
Wrap(r, attr, bat_path) ==
    IF r.ok THEN r
    ELSE Err(r.kind, [text |-> "Failed to read for", attr |-> Display(attr),
                      name |-> battery_name(bat_path), cause |-> r.msg])

ReadCurrPower(bat_path, fs) ==
    Wrap(read_num_battery_attribute(bat_path, "CurrPower", fs, U32MaxText),
         "CurrPower", bat_path)

ReadTotalPower(bat_path, fs) ==
    Wrap(read_num_battery_attribute(bat_path, "TotalPower", fs, U32MaxText),
         "TotalPower", bat_path)

\* Classify without the trim
Classify_noTrim(status_str) ==
    IF to_lowercase(status_str) = <<"c","h","a","r","g","i","n","g">>
    THEN "Charging" ELSE "NotCharging"

\* the match on the trimmed, lower-cased status text
Classify(status_str) ==
    IF to_lowercase(Trim(status_str)) = <<"c","h","a","r","g","i","n","g">>
    THEN "Charging" ELSE "NotCharging"

\* the status and the warnings it pushes
ReadStatus(bat_path, fs) ==
    LET r == read_str_battery_attribute(bat_path, "Status", fs) IN
    IF r.ok THEN [status |-> Classify(r.val), warnings |-> <<>>]
    ELSE [status |-> "Unknown",
          warnings |-> <<[text |-> "Failed to read status. Using 'unknown'.",
                          name |-> battery_name(bat_path), cause |-> r.msg]>>]

ToOption(r) == IF r.ok THEN Some(r.val) ELSE None

\* ReadCycles parsing into a u32
ReadCycles_wide(bat_path, fs) ==
    ToOption(read_num_battery_attribute(bat_path, "Cycles", fs, U32MaxText))

\* read_num_battery_attribute(path, BatteryAttribute::Cycles).ok()
ReadCycles(bat_path, fs) ==
    ToOption(read_num_battery_attribute(bat_path, "Cycles", fs, U8MaxText))

\* read_num_battery_attribute(path, BatteryAttribute::DesignPower), before .ok()
ReadDesignPower(bat_path, fs) ==
    read_num_battery_attribute(bat_path, "DesignPower", fs, U32MaxText)

\* Health multiplying by 100 before dividing
Health_mulFirst(total_power, design_power, bat_path) ==
    IF IsSome(design_power) /\ design_power.some > 0
    THEN [battery_health |->
              Some(F32Div(F32Mul(F32FromInt(total_power), F32FromInt(100)),
                          F32FromInt(design_power.some))),
          warnings |-> <<>>]
    ELSE [battery_health |-> None,
          warnings |-> <<[text |-> "Failed to read design power. Battery health unavailable.",
                          name |-> battery_name(bat_path)]>>]

\* the match on design_power: the health and the warnings it pushes
Health(total_power, design_power, bat_path) ==
    IF IsSome(design_power) /\ design_power.some > 0
    THEN [battery_health |->
              Some(F32Mul(F32Div(F32FromInt(total_power),
                                 F32FromInt(design_power.some)),
                          F32FromInt(100))),
          warnings |-> <<>>]
    ELSE [battery_health |-> None,
          warnings |-> <<[text |-> "Failed to read design power. Battery health unavailable.",
                          name |-> battery_name(bat_path)]>>]

\* Assemble storing the current power in both power fields
Assemble_sameField(bat_path, c, t, st, cycles, d) ==
    LET h == Health(t.val, ToOption(d), bat_path) IN
    [ok |-> TRUE,
     battery |-> [path |-> bat_path,
                  curr_power |-> c.val,
                  total_power |-> c.val,
                  status |-> st.status,
                  cycles |-> cycles,
                  battery_health |-> h.battery_health],
     warnings |-> st.warnings \o h.warnings,
     sources |-> [curr |-> c.path[Len(c.path)],
                  total |-> t.path[Len(t.path)],
                  design |-> IF d.ok THEN d.path[Len(d.path)] ELSE "none"]]

\* Ok((Self { .. }, warnings)); c, t and d are the results of the reads of
\* current, total and design power.  sources is history: the file each
\* number was read from (the unit is never stored in the Battery).
Assemble(bat_path, c, t, st, cycles, d) ==
    LET h == Health(t.val, ToOption(d), bat_path) IN
    [ok |-> TRUE,
     battery |-> [path |-> bat_path,
                  curr_power |-> c.val,
                  total_power |-> t.val,
                  status |-> st.status,
                  cycles |-> cycles,
                  battery_health |-> h.battery_health],
     warnings |-> st.warnings \o h.warnings,
     sources |-> [curr |-> c.path[Len(c.path)],
                  total |-> t.path[Len(t.path)],
                  design |-> IF d.ok THEN d.path[Len(d.path)] ELSE "none"]]

new(bat_path, fs) ==
    LET c == ReadCurrPower(bat_path, fs) IN
    IF ~c.ok THEN c
    ELSE LET t == ReadTotalPower(bat_path, fs) IN
         IF ~t.ok THEN t
         ELSE Assemble(bat_path, c, t,
                       ReadStatus(bat_path, fs),
                       ReadCycles(bat_path, fs),
                       ReadDesignPower(bat_path, fs))

\* Battery::health_percentage
health_percentage(self) == self.battery_health

\* ------------------------------------------------------------------------
\* Contents the device files take in the model
\* ------------------------------------------------------------------------
FileValues(f) ==
    CASE f = "energy_now" ->
           {Missing, Unreadable("PermissionDenied"),
            Txt(<<"8","0","\n">>), Txt(<<"a","b","c">>)}
      [] f = "charge_now" ->
           {Missing, Txt(<<"4","0","\n">>),
            Txt(<<"4","2","9","4","9","6","7","2","9","6">>)}
      [] f = "energy_full" ->
           {Missing, Txt(<<"1","0","0","\n">>), Txt(<<"0">>), Txt(<<>>)}
      [] f = "charge_full" ->
           {Missing, Txt(<<" ","5","0","\n">>), Txt(<<"-","1">>)}
      [] f = "energy_full_design" ->
           {Missing, Txt(<<"1","2","0","\n">>), Txt(<<"0","\n">>), Txt(<<"x">>)}
      [] f = "charge_full_design" ->
           {Missing, Unreadable("IsADirectory"), Txt(<<"6","0">>)}
      [] f = "status" ->
           {Missing, Unreadable("PermissionDenied"),
            Txt(<<"C","h","a","r","g","i","n","g","\n">>),
            Txt(<<"D","i","s","c","h","a","r","g","i","n","g","\n">>),
            Txt(<<"F","u","l","l">>),
            Txt(<<" ","C","H","A","R","G","I","N","G">>),
            Txt(<<>>)}
      [] f = "cycle_count" ->
           {Missing, Unreadable("PermissionDenied"),
            Txt(<<"1","2","\n">>), Txt(<<"2","5","5">>),
            Txt(<<"2","5","6">>), Txt(<<"n","/","a">>)}

NoFiles == [f \in FileNames |-> Missing]

EnergyDir ==
    [NoFiles EXCEPT !["energy_now"] = Txt(<<"8","0","\n">>),
                    !["energy_full"] = Txt(<<"1","0","0","\n">>),
                    !["energy_full_design"] = Txt(<<"1","2","0","\n">>),
                    !["status"] = Txt(<<"D","i","s","c","h","a","r","g","i","n","g","\n">>),
                    !["cycle_count"] = Txt(<<"1","2","\n">>)]

ChargeDir ==
    [NoFiles EXCEPT !["charge_now"] = Txt(<<"4","0","\n">>),
                    !["charge_full"] = Txt(<<" ","5","0","\n">>),
                    !["charge_full_design"] = Txt(<<"6","0">>),
                    !["status"] = Txt(<<"C","h","a","r","g","i","n","g","\n">>)]

BothDir ==
    [EnergyDir EXCEPT !["charge_now"] = Txt(<<"4","0","\n">>),
                      !["charge_full"] = Txt(<<" ","5","0","\n">>),
                      !["charge_full_design"] = Txt(<<"6","0">>)]

InitDirs == {NoFiles, EnergyDir, ChargeDir, BothDir}

\* ------------------------------------------------------------------------
\* Discovery
\* ------------------------------------------------------------------------
\* the power-supply root handed to find_batteries
RootPath == <<"sys", "class", "power_supply">>

\* str::starts_with
starts_with(name, prefix) ==
    Len(name) >= Len(prefix) /\ SubSeq(name, 1, Len(prefix)) = prefix

\* DirEntry::file_name().to_str(): None for a name that is not UTF-8
to_str(entry) == IF entry.utf8 THEN Some(entry.name) ELSE None

\* DirEntry::path()
entry_path(power_supply_path, entry) ==
    [parent |-> power_supply_path, file_name |-> entry.name]

\* the filter closure of find_batteries
IsBatteryEntry(entry) ==
    IF IsSome(to_str(entry))
    THEN starts_with(to_str(entry).some, <<"B","A","T">>)
    ELSE FALSE

RECURSIVE Collect_noFilter(_, _)
\* Collect without the name filter
Collect_noFilter(power_supply_path, items) ==
    IF items = <<>> THEN <<>>
    ELSE LET e == Head(items)
             rest == Collect_noFilter(power_supply_path, Tail(items))
         IN IF e.ok
            THEN <<entry_path(power_supply_path, e)>> \o rest
            ELSE rest

RECURSIVE Collect(_, _)
\* filter_map(Result::ok).filter(..).map(|e| e.path()).collect()
Collect(power_supply_path, items) ==
    IF items = <<>> THEN <<>>
    ELSE LET e == Head(items)
             rest == Collect(power_supply_path, Tail(items))
         IN IF e.ok /\ IsBatteryEntry(e)
            THEN <<entry_path(power_supply_path, e)>> \o rest
            ELSE rest

\* dir is what fs::read_dir(power_supply_path) gives: an error, or the
\* items of the listing in the order the host enumerates them
find_batteries(power_supply_path, dir) ==
    IF dir.ok THEN Collect(power_supply_path, dir.items) ELSE <<>>

DirEntryOk(name) == [ok |-> TRUE, name |-> name, utf8 |-> TRUE]

\* items a listing of the root is made of in the model
EntryPool ==
    {DirEntryOk(<<"B","A","T","0">>),
     DirEntryOk(<<"B","A","T","1">>),
     DirEntryOk(<<"A","C","0">>),
     DirEntryOk(<<"b","a","t","0">>),
     DirEntryOk(<<"B","A">>),
     DirEntryOk(<<"x","B","A","T">>),
     [ok |-> TRUE, name |-> <<"B","A","T","?">>, utf8 |-> FALSE],
     [ok |-> FALSE, kind |-> "PermissionDenied"]}

RootErrors ==
    {[ok |-> FALSE, kind |-> k] :
        k \in {"NotFound", "PermissionDenied", "NotADirectory"}}

EmptyRoot == [ok |-> TRUE, items |-> <<>>]

\* ------------------------------------------------------------------------
\* State
\* ------------------------------------------------------------------------
VARIABLES
    files,      \* the device directory: file name -> file state
    bat,        \* the caller's Battery, None before a successful new
    ret,        \* what the most recent new/refresh returned, None before
    callFiles,  \* history: the device files at the most recent call
    okFiles,    \* history: the device files at the most recent successful call
    writes,     \* external changes so far
    pc,         \* the statement of new a call in progress is at, or "idle"
    loc,        \* the locals of the call in progress
    seen,       \* history: the device-file states that existed during the call
    root,       \* the power-supply root as read_dir finds it
    found       \* what the most recent find_batteries returned, None before

vars == <<files, bat, ret, callFiles, okFiles, writes, pc, loc, seen, root, found>>

readerVars == <<files, bat, ret, callFiles, okFiles, writes>>
raceVars == <<pc, loc, seen>>
findVars == <<root, found>>

Init ==
    /\ files \in InitDirs
    /\ bat = None
    /\ ret = None
    /\ callFiles = None
    /\ okFiles = None
    /\ writes = 0
    /\ pc = "idle"
    /\ loc = None
    /\ seen = {}
    /\ root = EmptyRoot
    /\ found = None

\* an external change to one device file
WriteFile ==
    \E f \in FileNames : \E v \in FileValues(f) :
       /\ v # files[f]
       /\ files' = [files EXCEPT ![f] = v]

ExternalWrite ==
    /\ writes < MaxWrites
    /\ WriteFile
    /\ writes' = writes + 1
    /\ UNCHANGED <<bat, ret, callFiles, okFiles>>
    /\ UNCHANGED <<raceVars, findVars>>

\* what a call returns to the caller
Returned(op, r) ==
    IF r.ok THEN [op |-> op, ok |-> TRUE, warnings |-> r.warnings,
                  sources |-> r.sources]
    ELSE [op |-> op, ok |-> FALSE, kind |-> r.kind, msg |-> r.msg]

\* a call returns: the caller's Battery becomes self, r is handed back
Return(op, self, r) ==
    /\ bat' = self
    /\ ret' = Returned(op, r)
    /\ okFiles' = IF r.ok THEN files ELSE okFiles
    /\ callFiles' = files
    /\ UNCHANGED <<files, writes>>
    /\ UNCHANGED <<raceVars, findVars>>

\* let (battery, warnings) = Battery::new(DevPath)?
Bind(r) == IF r.ok THEN r.battery ELSE None

\* the caller constructs its Battery: Battery::new(DevPath)
New ==
    /\ bat = None
    /\ \E r \in {new(DevPath, files)} : Return("new", Bind(r), r)

\* refresh assigning the fields one by one as they are read
refresh_fieldwise(self, fs) ==
    LET c == ReadCurrPower(self.path, fs) IN
    \E r \in {new(self.path, fs)} :
       IF r.ok THEN Return("refresh", r.battery, r)
       ELSE IF c.ok
       THEN Return("refresh", [self EXCEPT !.curr_power = c.val], r)
       ELSE Return("refresh", self, r)

\* Battery::refresh: *self is assigned only after new has succeeded
refresh(self, fs) ==
    \E r \in {new(self.path, fs)} :
       Return("refresh", IF r.ok THEN r.battery ELSE self, r)

Refresh ==
    /\ bat # None
    /\ refresh(bat, files)

Next == ExternalWrite \/ New \/ Refresh

\* the reader with the device files changing between its calls
Spec == Init /\ [][Next]_vars

\* ------------------------------------------------------------------------
\* The reader with the device files changing during a call: new runs one
\* file-reading statement at a time
\* ------------------------------------------------------------------------
\* an external change to one device file, possibly in the middle of a call
ConcurrentWrite ==
    /\ writes < MaxRaceWrites
    /\ WriteFile
    /\ writes' = writes + 1
    /\ seen' = IF pc = "idle" THEN seen ELSE seen \cup {files'}
    /\ UNCHANGED <<bat, ret, callFiles, okFiles, pc, loc, findVars>>

\* the host replaces the whole device directory at once
ConcurrentSwap ==
    /\ writes < MaxRaceWrites
    /\ \E d \in InitDirs : d # files /\ files' = d
    /\ writes' = writes + 1
    /\ seen' = IF pc = "idle" THEN seen ELSE seen \cup {files'}
    /\ UNCHANGED <<bat, ret, callFiles, okFiles, pc, loc, findVars>>

\* Battery::new(DevPath) or self.refresh() is entered
Call ==
    /\ pc = "idle"
    /\ pc' = "curr"
    /\ loc' = [op |-> IF bat = None THEN "new" ELSE "refresh",
               path |-> IF bat = None THEN DevPath ELSE bat.path]
    /\ seen' = {files}
    /\ callFiles' = files
    /\ UNCHANGED <<files, bat, ret, okFiles, writes, findVars>>

\* the call returns the error e
Fail(e) ==
    /\ ret' = Returned(loc.op, e)
    /\ pc' = "idle"
    /\ loc' = None
    /\ UNCHANGED <<files, bat, callFiles, okFiles, writes, seen, findVars>>

StepCurr ==
    /\ pc = "curr"
    /\ LET c == ReadCurrPower(loc.path, files) IN
          IF c.ok
          THEN /\ pc' = "total"
               /\ loc' = [op |-> loc.op, path |-> loc.path, c |-> c]
               /\ UNCHANGED <<files, bat, ret, callFiles, okFiles, writes,
                              seen, findVars>>
          ELSE Fail(c)

StepTotal ==
    /\ pc = "total"
    /\ LET t == ReadTotalPower(loc.path, files) IN
          IF t.ok
          THEN /\ pc' = "status"
               /\ loc' = [op |-> loc.op, path |-> loc.path, c |-> loc.c,
                          t |-> t]
               /\ UNCHANGED <<files, bat, ret, callFiles, okFiles, writes,
                              seen, findVars>>
          ELSE Fail(t)

StepStatus ==
    /\ pc = "status"
    /\ pc' = "cycles"
    /\ loc' = [op |-> loc.op, path |-> loc.path, c |-> loc.c, t |-> loc.t,
               st |-> ReadStatus(loc.path, files)]
    /\ UNCHANGED <<files, bat, ret, callFiles, okFiles, writes, seen, findVars>>

StepCycles ==
    /\ pc = "cycles"
    /\ pc' = "design"
    /\ loc' = [op |-> loc.op, path |-> loc.path, c |-> loc.c, t |-> loc.t,
               st |-> loc.st, cycles |-> ReadCycles(loc.path, files)]
    /\ UNCHANGED <<files, bat, ret, callFiles, okFiles, writes, seen, findVars>>

\* the last read, the health computation and the return; a refresh
\* assigns *self here
StepDesign ==
    /\ pc = "design"
    /\ LET r == Assemble(loc.path, loc.c, loc.t, loc.st, loc.cycles,
                         ReadDesignPower(loc.path, files))
       IN /\ bat' = r.battery
          /\ ret' = Returned(loc.op, r)
    /\ pc' = "idle"
    /\ loc' = None
    /\ UNCHANGED <<files, callFiles, okFiles, writes, seen, findVars>>

NextRace ==
    \/ ConcurrentWrite \/ ConcurrentSwap \/ Call
    \/ StepCurr \/ StepTotal \/ StepStatus \/ StepCycles \/ StepDesign

SpecRace == Init /\ [][NextRace]_vars

\* ------------------------------------------------------------------------
\* Discovery against a changing root
\* ------------------------------------------------------------------------
\* names are unique within a directory
UniqueNames(items) ==
    \A i, j \in 1..Len(items) :
       (i # j /\ items[i].ok /\ items[j].ok) => items[i].name # items[j].name

\* an entry appears in the root, at any place of the enumeration order
AddEntry ==
    /\ root.ok /\ Len(root.items) < MaxEntries
    /\ \E e \in EntryPool : \E k \in 0..Len(root.items) :
          LET items == SubSeq(root.items, 1, k) \o <<e>>
                       \o SubSeq(root.items, k + 1, Len(root.items))
          IN /\ UniqueNames(items)
             /\ root' = [ok |-> TRUE, items |-> items]
    /\ found' = None
    /\ UNCHANGED <<readerVars, raceVars>>

\* the root is removed, made unreadable or replaced by a file, or is
\* created again empty
ReplaceRoot ==
    /\ \E r \in RootErrors \cup {EmptyRoot} : r # root /\ root' = r
    /\ found' = None
    /\ UNCHANGED <<readerVars, raceVars>>

FindBatteries ==
    /\ found' = [root |-> root, paths |-> find_batteries(RootPath, root)]
    /\ UNCHANGED <<root, readerVars, raceVars>>

NextFind == AddEntry \/ ReplaceRoot \/ FindBatteries

SpecFind == Init /\ [][NextFind]_vars
\* ------------------------------------------------------------------------
\* What the contents used in the model denote, written out value by value
\* ------------------------------------------------------------------------
EnergyFile(attr) ==
    CASE attr = "CurrPower" -> "energy_now"
      [] attr = "TotalPower" -> "energy_full"
      [] attr = "DesignPower" -> "energy_full_design"

ChargeFile(attr) ==
    CASE attr = "CurrPower" -> "charge_now"
      [] attr = "TotalPower" -> "charge_full"
      [] attr = "DesignPower" -> "charge_full_design"

Family(f) ==
    IF f \in {"energy_now", "energy_full", "energy_full_design"} THEN "energy"
    ELSE IF f \in {"charge_now", "charge_full", "charge_full_design"} THEN "charge"
    ELSE "none"

\* the u32 a content denotes, None when it denotes none
ExpectU32(content) ==
    CASE content = <<"8","0","\n">> -> Some(80)
      [] content = <<"4","0","\n">> -> Some(40)
      [] content = <<"1","0","0","\n">> -> Some(100)
      [] content = <<"0">> -> Some(0)
      [] content = <<" ","5","0","\n">> -> Some(50)
      [] content = <<"1","2","0","\n">> -> Some(120)
      [] content = <<"0","\n">> -> Some(0)
      [] content = <<"6","0">> -> Some(60)
      [] OTHER -> None

\* the u8 a content denotes, None when it denotes none
ExpectU8(content) ==
    CASE content = <<"1","2","\n">> -> Some(12)
      [] content = <<"2","5","5">> -> Some(255)
      [] OTHER -> None

ExpectStatus(content) ==
    IF content \in {<<"C","h","a","r","g","i","n","g","\n">>,
                    <<" ","C","H","A","R","G","I","N","G">>}
    THEN "Charging" ELSE "NotCharging"

\* IEEE-754 single precision values of total / design * 100
ExpectHealth(total, design) ==
    CASE total = 0 -> [m |-> 0, e |-> 0]
      [] total = 50 /\ design = 60 -> [m |-> 10922666, e |-> -17]
      [] total = 50 /\ design = 120 -> [m |-> 10922666, e |-> -18]
      [] total = 100 /\ design = 60 -> [m |-> 10922666, e |-> -16]
      [] total = 100 /\ design = 120 -> [m |-> 10922666, e |-> -17]

\* the candidate file of a two-candidate attribute the value comes from
Selected(fs, attr) ==
    IF fs[EnergyFile(attr)].ok THEN EnergyFile(attr)
    ELSE IF fs[ChargeFile(attr)].ok THEN ChargeFile(attr)
    ELSE "none"

\* the number a two-candidate attribute resolves to, None when it fails
Resolved(fs, attr) ==
    IF Selected(fs, attr) = "none" THEN None
    ELSE ExpectU32(fs[Selected(fs, attr)].content)

\* the most recent call succeeded, so bat is the snapshot it produced
Constructed == ret # None /\ ret.ok

\* ------------------------------------------------------------------------
\* C1: after any sequence of external changes and refreshes the Battery is
\* what construction yields for the files at the most recent successful
\* call; a call fails exactly when construction on the files of that moment
\* fails, and then leaves the Battery as it was; path never changes.
\* ------------------------------------------------------------------------
C1_RefreshAllOrNothing ==
    /\ (bat = None) <=> (okFiles = None)
    /\ bat # None =>
          /\ new(DevPath, okFiles).ok
          /\ bat = new(DevPath, okFiles).battery
          /\ bat.path = DevPath
    /\ ret # None =>
          /\ ret.ok <=> new(DevPath, callFiles).ok
          /\ ret.ok => okFiles = callFiles

W_C1_FailedRefreshKeepsSnapshot ==
    /\ ret # None /\ ret.op = "refresh" /\ ~ret.ok
    /\ bat # None
    /\ okFiles # callFiles /\ files = callFiles

\* ------------------------------------------------------------------------
\* C2: construction fails if and only if current power or total power does
\* not resolve to a u32; the error is that of the first failing one of the
\* two, NotFound when no candidate is readable and InvalidData when the
\* selected content is not a u32; a failed new leaves no Battery.
\* ------------------------------------------------------------------------
C2_OnlyMandatoryFail ==
    ret # None =>
       LET cur == Resolved(callFiles, "CurrPower")
           tot == Resolved(callFiles, "TotalPower")
           failing == IF cur = None THEN "CurrPower" ELSE "TotalPower"
       IN /\ ret.ok <=> (cur # None /\ tot # None)
          /\ ~ret.ok =>
                /\ (ret.op = "new" => bat = None)
                /\ ret.msg.attr = (IF cur = None THEN "current power"
                                                  ELSE "total power")
                /\ ret.kind = (IF Selected(callFiles, failing) = "none"
                               THEN "NotFound" ELSE "InvalidData")

W_C2_TotalInvalidWhileOptionalFail ==
    /\ ret # None /\ ~ret.ok
    /\ ret.kind = "InvalidData" /\ ret.msg.attr = "total power"
    /\ ~callFiles["status"].ok

\* ------------------------------------------------------------------------
\* C3: each of current, total and design power comes from the energy-named
\* file when it is readable and from the charge-named file only when the
\* energy-named one is unreadable; an energy-named file that is readable
\* but does not parse is not replaced by the charge-named file.
\* ------------------------------------------------------------------------
C3_EnergyBeforeCharge ==
    ret # None =>
       /\ ret.ok =>
             /\ Some(bat.curr_power) = Resolved(callFiles, "CurrPower")
             /\ Some(bat.total_power) = Resolved(callFiles, "TotalPower")
             /\ ret.sources.curr = Selected(callFiles, "CurrPower")
             /\ ret.sources.total = Selected(callFiles, "TotalPower")
             /\ LET d == Resolved(callFiles, "DesignPower") IN
                   /\ IsSome(bat.battery_health) <=> (IsSome(d) /\ d.some > 0)
                   /\ IsSome(d) =>
                         ret.sources.design = Selected(callFiles, "DesignPower")
       /\ \A attr \in {"CurrPower", "TotalPower"} :
             (/\ callFiles[EnergyFile(attr)].ok
              /\ ExpectU32(callFiles[EnergyFile(attr)].content) = None)
             => (~ret.ok /\ (ret.kind = "InvalidData"
                             \/ ret.msg.attr # Display(attr)))

W_C3_BothReadableEnergyUsed ==
    /\ Constructed
    /\ callFiles["energy_now"].ok /\ callFiles["charge_now"].ok
    /\ bat.curr_power = 80
    /\ ~callFiles["energy_full"].ok /\ bat.total_power = 50

\* ------------------------------------------------------------------------
\* C4: status is Charging exactly for a readable status file whose trimmed,
\* lower-cased content is "charging", NotCharging for any other readable
\* content, Unknown exactly when the file is unreadable; the status warning
\* is there exactly in the Unknown case.
\* ------------------------------------------------------------------------
StatusWarnings(w) ==
    {i \in 1..Len(w) : w[i].text = "Failed to read status. Using 'unknown'."}

C4_StatusClassification ==
    Constructed =>
       /\ callFiles["status"].ok =>
             /\ bat.status = ExpectStatus(callFiles["status"].content)
             /\ StatusWarnings(ret.warnings) = {}
       /\ ~callFiles["status"].ok =>
             /\ bat.status = "Unknown"
             /\ Cardinality(StatusWarnings(ret.warnings)) = 1

W_C4_UpperCaseCharging ==
    /\ Constructed
    /\ callFiles["status"] = Txt(<<" ","C","H","A","R","G","I","N","G">>)
    /\ bat.status = "Charging"

\* ------------------------------------------------------------------------
\* C5: battery_health is present exactly when design power resolves to a
\* number above 0 and is then total_power / design_power * 100 in f32 for
\* the total_power of the same snapshot; otherwise it is absent with exactly
\* one design-power warning.  health_percentage returns the stored value.
\* ------------------------------------------------------------------------
DesignWarnings(w) ==
    {i \in 1..Len(w) :
        w[i].text = "Failed to read design power. Battery health unavailable."}

C5_HealthFromDesign ==
    /\ Constructed =>
          LET d == Resolved(callFiles, "DesignPower") IN
          IF IsSome(d) /\ d.some > 0
          THEN /\ bat.battery_health = Some(ExpectHealth(bat.total_power, d.some))
               /\ DesignWarnings(ret.warnings) = {}
          ELSE /\ bat.battery_health = None
               /\ Cardinality(DesignWarnings(ret.warnings)) = 1
    /\ bat # None =>
          /\ health_percentage(bat) = bat.battery_health
          /\ LET d == Resolved(okFiles, "DesignPower") IN
                IsSome(health_percentage(bat)) <=> (IsSome(d) /\ d.some > 0)

W_C5_HealthRounded ==
    /\ Constructed
    /\ bat.total_power = 100
    /\ callFiles["energy_full_design"] = Txt(<<"1","2","0","\n">>)
    /\ bat.battery_health = Some([m |-> 10922666, e |-> -17])
    /\ files # callFiles

\* ------------------------------------------------------------------------
\* C7: cycles holds the number of a readable cycle_count whose trimmed
\* content is an integer in 0..255 and is absent otherwise; a bad cycle
\* count neither fails construction nor warns: the warnings are non-empty
\* exactly when status is Unknown or battery_health is absent.
\* ------------------------------------------------------------------------
C7_CyclesSilent ==
    /\ Constructed =>
          /\ bat.cycles = (IF callFiles["cycle_count"].ok
                           THEN ExpectU8(callFiles["cycle_count"].content)
                           ELSE None)
          /\ (ret.warnings # <<>>)
                <=> (bat.status = "Unknown" \/ bat.battery_health = None)
    /\ (/\ ret # None
        /\ Resolved(callFiles, "CurrPower") # None
        /\ Resolved(callFiles, "TotalPower") # None) => ret.ok

W_C7_CyclesAbove255 ==
    /\ Constructed
    /\ callFiles["cycle_count"] = Txt(<<"2","5","6">>)
    /\ bat.cycles = None
    /\ ret.warnings = <<>>

\* ------------------------------------------------------------------------
\* C9: in every constructed Battery current, total and (with health
\* present) design power were read from files of one naming family.
\* ------------------------------------------------------------------------
C9_OneFamily ==
    Constructed =>
       /\ Family(ret.sources.curr) = Family(ret.sources.total)
       /\ IsSome(bat.battery_health) =>
             Family(ret.sources.design) = Family(ret.sources.total)

\* ------------------------------------------------------------------------
\* C6 as stated: an attribute with no readable candidate fails with a
\* NotFound error whatever the I/O cause and whether it has one candidate
\* or two; with two candidates the error names both, and so does the error
\* of a construction that finds neither energy_now nor charge_now.
\* ------------------------------------------------------------------------
\* the attributes the most recent call resolved before it returned
ResolvedByCall ==
    IF ret = None THEN {}
    ELSE IF ret.ok
    THEN {"CurrPower", "TotalPower", "Status", "Cycles", "DesignPower"}
    ELSE IF ret.msg.attr = "current power" THEN {"CurrPower"}
    ELSE {"CurrPower", "TotalPower"}

NoneReadable(fs, attr) ==
    \A i \in 1..Len(file_names(attr)) : ~fs[file_names(attr)[i]].ok

TwoCandidates == {"CurrPower", "TotalPower", "DesignPower"}

ConstructionNamesBoth ==
    (ret # None /\ NoneReadable(callFiles, "CurrPower")) =>
       /\ ~ret.ok
       /\ ret.kind = "NotFound"
       /\ ret.msg.cause.tried = <<"energy_now", "charge_now">>

C6_AlwaysNotFound ==
    /\ \A attr \in ResolvedByCall :
          NoneReadable(callFiles, attr) =>
             LET r == read_str_battery_attribute(DevPath, attr, callFiles) IN
             /\ ~r.ok
             /\ r.kind = "NotFound"
             /\ attr \in TwoCandidates =>
                   r.msg.tried = <<EnergyFile(attr), ChargeFile(attr)>>
    /\ ConstructionNamesBoth

\* C6 amended: with two candidates the failure is NotFound whatever the
\* I/O causes and names both candidates; with one candidate (status, cycle
\* count) the failure keeps the kind of the underlying I/O error and names
\* the path and the cause.
C6_NotFoundForTwoCandidates ==
    /\ \A attr \in ResolvedByCall :
          NoneReadable(callFiles, attr) =>
             LET r == read_str_battery_attribute(DevPath, attr, callFiles) IN
             /\ ~r.ok
             /\ IF attr \in TwoCandidates
                THEN /\ r.kind = "NotFound"
                     /\ r.msg.tried = <<EnergyFile(attr), ChargeFile(attr)>>
                ELSE LET f == file_names(attr)[1] IN
                     /\ r.kind = callFiles[f].kind
                     /\ r.msg.path = Append(DevPath, f)
                     /\ r.msg.cause = callFiles[f].kind
    /\ ConstructionNamesBoth

W_C6_DeniedStatusDeniedDesign ==
    /\ Constructed
    /\ callFiles["status"] = Unreadable("PermissionDenied")
    /\ callFiles["charge_full_design"] = Unreadable("IsADirectory")
    /\ ~callFiles["energy_full_design"].ok

\* ------------------------------------------------------------------------
\* C8: find_batteries returns the paths of exactly the entries of the root
\* whose name starts with "BAT", each once, and the empty sequence for a
\* root that cannot be listed; entries that cannot be inspected contribute
\* nothing.
\* ------------------------------------------------------------------------
\* the names of EntryPool that start with "BAT"
BatNames == {<<"B","A","T","0">>, <<"B","A","T","1">>}

Listed(r) ==
    {r.items[i].name : i \in {k \in 1..Len(r.items) :
                                 r.items[k].ok /\ r.items[k].utf8}}

C8_FindBatteries ==
    found # None =>
       LET got == {found.paths[i] : i \in 1..Len(found.paths)} IN
       /\ ~found.root.ok => found.paths = <<>>
       /\ found.root.ok =>
             /\ got = {[parent |-> RootPath, file_name |-> n] :
                          n \in Listed(found.root) \cap BatNames}
             /\ Len(found.paths) = Cardinality(got)

W_C8_TwoBatteriesAndAdapter ==
    /\ found # None /\ found.root = root
    /\ root.ok
    /\ Listed(root) = {<<"B","A","T","0">>, <<"B","A","T","1">>, <<"A","C","0">>}
    /\ Len(found.paths) = 2

\* ------------------------------------------------------------------------
\* C10 as stated: with the device files changing during a call, the
\* snapshot the call produces is what construction yields for one file
\* state that existed during the call; if current <= total in every such
\* state then curr_power <= total_power in the snapshot.
\* ------------------------------------------------------------------------
Finished == pc = "idle" /\ ret # None /\ ret.ok

OrderedIn(fs) ==
    LET c == Resolved(fs, "CurrPower")
        t == Resolved(fs, "TotalPower")
    IN (IsSome(c) /\ IsSome(t)) => c.some <= t.some

StatusIn(fs) ==
    IF fs["status"].ok THEN ExpectStatus(fs["status"].content) ELSE "Unknown"

CyclesIn(fs) ==
    IF fs["cycle_count"].ok THEN ExpectU8(fs["cycle_count"].content) ELSE None

HealthFrom(total, d) ==
    IF IsSome(d) /\ d.some > 0 THEN Some(ExpectHealth(total, d.some)) ELSE None

====
